---- MODULE Spec2Model ----
(***************************************************************************)
(* Model of the Text2SQL workflow of text2sql_agent: the LangGraph state   *)
(* graph of graph/builder.py, its node functions of graph/nodes.py, the    *)
(* reducers of graph/state.py and the caller web_app.query.                *)
(*                                                                         *)
(* A graph run is a sequence of supersteps.  Every node of `tasks` reads   *)
(* the channel values of `state` as they were when the superstep started   *)
(* and returns a Command; the Commands are collected in `writes`.  When    *)
(* the last node of the superstep has returned, the updates are merged     *)
(* into `state` through the channel reducers and the next superstep is     *)
(* made of the nodes named by Command.goto together with the targets of    *)
(* the static edges added with add_edge: a static edge is followed         *)
(* whatever the Command returned by its source node names.                 *)
(*                                                                         *)
(* The timing channel is wall-clock data that no node reads; it is left    *)
(* out.  Texts are modelled by what the code does with them: error texts   *)
(* by the retry keywords they contain, a generated query by the step and   *)
(* attempt it was generated for, a result set by its rows.                 *)
(***************************************************************************)
EXTENDS Integers, Sequences, FiniteSets, TLC

\* ---------------------------------------------------------------- bounds
MaxSteps == 2        \* longest plan the Planner returns
MaxRows == 1         \* largest result set the backend returns
MaxTurns == 2        \* turns submitted to the one session
MaxAppends == 2      \* writes to the messages channel of a long session
MaxRecords == 3      \* points in the conversation_memory collection
MaxList == 3         \* longest list a retrieval backend returns
MaxSlice == 6        \* longest slice handed to LongTermMemory.archive
MaxPlan == 2         \* steps of a plan handed to plan_validator_node, and its highest step number
MaxHundreds == 10    \* longest value of a result row, in hundreds of characters

\* ------------------------------------------------------ program constants
ErrorChars == 100            \* error_msg[:100]
DefaultMaxRetries == 2       \* input_state["max_retries"]
TRIM_THRESHOLD == 20         \* add_messages
KEEP_COUNT == 10             \* add_messages
RrfK == 60                   \* rrf_fusion(k=60)
ScoreThreshold == 50         \* retrieve(score_threshold=0.5), in hundredths
ConfidenceThreshold == 50    \* 0.5, in hundredths
NoneInt == -1                \* Python None in an Optional[int] field

\* ------------------------------------------------------------- plan data
valid_dbs == {"mysql", "influxdb"}

\* The plans the Planner returns here look up the device in the relational
\* store and read its measurements from the time-series store.  Steps are
\* numbered from 0 as the prompt asks, and every later step depends on the
\* step before it.  A defective plan skips a number before its last step
\* (gap), makes its last step depend on itself (self_dep), or both.
DatabaseAt(i) == IF i = 1 THEN "mysql" ELSE "influxdb"

PlanShapes == [gap : BOOLEAN, self_dep : BOOLEAN]

WellFormed == [gap |-> FALSE, self_dep |-> FALSE]

StepNumber(n, shape, i) ==
    i - 1 + (IF shape.gap /\ i = n THEN 1 ELSE 0)

QueryStep(n, shape, i) ==
    [ step |-> StepNumber(n, shape, i),
      database |-> DatabaseAt(i),
      depends_on |-> IF i = 1 THEN NoneInt
                     ELSE IF shape.self_dep /\ i = n THEN StepNumber(n, shape, i)
                     ELSE StepNumber(n, shape, i - 1) ]

Steps(n, shape) == [i \in 1..n |-> QueryStep(n, shape, i)]

\* what the model returned next to the steps: confidence (hundredths),
\* needs_clarification, clarification_questions
Clear ==
    [confidence |-> 90, needs_clarification |-> FALSE, clarification_questions |-> <<>>]

ClarityProfiles ==
    { Clear,
      [confidence |-> 40, needs_clarification |-> FALSE, clarification_questions |-> <<"which device">>],
      [confidence |-> 90, needs_clarification |-> TRUE,  clarification_questions |-> <<"which device">>] }

Plan(c, st) ==
    [is_none |-> FALSE, confidence |-> c.confidence,
     needs_clarification |-> c.needs_clarification,
     clarification_questions |-> c.clarification_questions,
     steps |-> st]

\* well-formed plans of every length, two-step plans of every shape, and
\* one-step plans of every clarity
QueryPlan ==
    { Plan(Clear, Steps(n, WellFormed)) : n \in 0..MaxSteps }
    \cup { Plan(Clear, Steps(2, shape)) : shape \in PlanShapes }
    \cup { Plan(c, Steps(1, WellFormed)) : c \in ClarityProfiles }

NonePlan ==
    [is_none |-> TRUE, confidence |-> 0, needs_clarification |-> FALSE,
     clarification_questions |-> <<>>, steps |-> <<>>]

\* ------------------------------------------------------------ error data
ErrorTexts ==
    { "You have an error in your SQL syntax; check the manual that corresponds to your MySQL server version for the right syntax to use near 'FORM t_device' at line 1",
      "Lost connection to MySQL server" }

RetryKeywords ==
    { "syntax", "error in your sql", "unknown column", "doesn't exist",
      "table", "ambiguous", "parse", "not executed", "error parsing query",
      "undefined identifier", "invalid", "measurement not found" }

\* the keywords of the list that occur in error_msg.lower()
KeywordsIn(error_msg) ==
    CASE error_msg = "You have an error in your SQL syntax; check the manual that corresponds to your MySQL server version for the right syntax to use near 'FORM t_device' at line 1"
            -> {"syntax", "error in your sql"}
      [] error_msg = "Lost connection to MySQL server" -> {}
      [] OTHER -> {}

is_retryable(error_msg) == KeywordsIn(error_msg) \cap RetryKeywords # {}

NoError == [kind |-> "none", retried |-> FALSE, detail |-> <<>>]
ErrorOf(kind, retried, detail) == [kind |-> kind, retried |-> retried, detail |-> detail]

\* ----------------------------------------------------------- result data
\* the backend returns no row or MaxRows rows
ResultSets == { <<>>, [i \in 1..MaxRows |-> i] }

NoText == [kind |-> "empty", step |-> 0, rows |-> 0, text |-> ""]

\* the text format_context(result, 20, 2000) returns in execute_node, named by
\* the step whose result it summarises and the number of rows it reports
ContextSummary(step, result) ==
    [kind |-> "summary", step |-> step, rows |-> Len(result), text |-> ""]

RetryContext(step, error_msg) ==
    [kind |-> "retry_error", step |-> step, rows |-> 0, text |-> error_msg]


\* the schema text get_ddl_for_query returns for a step of the plan
SchemaFor(step) == [kind |-> "schema", step |-> step, rows |-> 0, text |-> ""]

\* the query text generate returns: which question and which step it is for
NoQuery == [question |-> 0, step |-> NoneInt]
QueryFor(question, step) == [question |-> question, step |-> step]

StepResult(step_id, database, query, results, error) ==
    [step_id |-> step_id, database |-> database, query |-> query,
     results |-> results, error |-> error]

\* a message is named by its type and the question of the turn it records;
\* the content of an AIMessage is the JSON summary aggregate_node builds for
\* that question
HumanMessage(question) == [type |-> "human", question |-> question]
AIMessage(question) == [type |-> "ai", question |-> question]

\* ------------------------------------------------------------- variables
VARIABLES
    state,      \* the channels of Text2SQLState kept by the checkpointer
    tasks,      \* nodes of the running superstep that have not returned yet
    writes,     \* Commands returned so far in the running superstep
    next,       \* StateSnapshot.next: nodes pending after the run stopped
    pc,         \* where web_app.query is: idle, invoke, returned, raised
    exc,        \* the exception graph.invoke raised, if any
    response,   \* the QueryResponse of the last finished turn
    turn,       \* number of turns submitted so far
    log,        \* calls made in the current turn, in order
    history,    \* status of the response of every finished turn
    session,    \* the thread_id of the conversation (config["configurable"])
    jobs,       \* the archival threads started by add_messages
    store,      \* the points of the conversation_memory collection
    store_up,   \* whether the embedding service and the collection answer
    last_append,    \* the last write to the messages channel made by AppendMessages
    retrieved,      \* the last call of LongTermMemory.retrieve and its result
    es_hits,        \* what the keyword index returns for the query
    qdrant_hits,    \* what the vector collection returns for the query
    keyword_results,    \* search_with_details: result of the keyword future
    semantic_results,   \* search_with_details: result of the semantic future
    searched,       \* search_with_details: the futures in the order they completed
    top_k,          \* search_with_details: number of results asked for
    fused,          \* the results of the calls of rrf_fusion, in order
    compressed,     \* the call of format_context: its results and its text
    parsing,        \* the channels query_parser_node and clarify_node use
    parser_next,    \* the node of the clarification loop that comes next
    loop_count,     \* main.run_query: iterations of the clarification loop
    asked           \* the clarification questions put to the user in the turn

workflow_vars == <<state, tasks, writes, next, pc, exc, response, turn, log, history>>
memory_vars == <<session, jobs, store, store_up, last_append, retrieved>>
fusion_vars == <<es_hits, qdrant_hits, keyword_results, semantic_results, searched, top_k, fused>>
context_vars == <<compressed>>
clarify_vars == <<parsing, parser_next, loop_count, asked>>
vars == <<workflow_vars, memory_vars, fusion_vars, context_vars, clarify_vars>>

END == "__end__"
InterruptBefore == {"human_input"}

\* builder.add_edge(a, b): the static edges of the graph
StaticEdges(node) ==
    CASE node = "intent" -> {"plan_validator"}
      [] node = "plan_validator" -> {"rag"}
      [] node = "rag" -> {"sql_gen"}
      [] node = "sql_gen" -> {"execute"}
      [] node = "aggregate" -> {"human_input"}
      [] node = "human_input" -> {END}
      [] node = "error_handler" -> {END}
      [] OTHER -> {}

\* ------------------------------------------------------------- Commands
NoUpdate == <<>>
Command(update, goto) == [update |-> update, goto |-> goto, raised |-> FALSE, exc |-> ""]
Raise(e) == [update |-> NoUpdate, goto |-> {}, raised |-> TRUE, exc |-> e]

Get(update, key, default) == IF key \in DOMAIN update THEN update[key] ELSE default

Event(op, step, ok, rows, retryable) ==
    [op |-> op, step |-> step, ok |-> ok, rows |-> rows, retryable |-> retryable]

\* a call of generator.generate and the context it was given
GenEvent(step, ok, context) ==
    [op |-> "gen", step |-> step, ok |-> ok, rows |-> 0, retryable |-> FALSE,
     context |-> context]

\* ------------------------------------------------------------- reducers
\* mutant of add_messages: the kept slice is returned as it is
add_messages_keeps_leading_ai(left, right) ==
    LET result == left \o right
    IN  IF Len(result) > TRIM_THRESHOLD
        THEN SubSeq(result, Len(result) - KEEP_COUNT + 1, Len(result))
        ELSE result

\* mutant of add_messages: the trim starts two messages late
add_messages_trims_late(left, right) ==
    LET result == left \o right
    IN  IF Len(result) > TRIM_THRESHOLD + 2
        THEN SubSeq(result, Len(result) - KEEP_COUNT + 1, Len(result))
        ELSE result

\* add_messages: the reducer of the messages channel
add_messages(left, right) ==
    LET result == left \o right
        kept == SubSeq(result, Len(result) - KEEP_COUNT + 1, Len(result))
        \* while result and result[0].type != "human": result = result[1:]
        firstHuman == IF \E i \in DOMAIN kept : kept[i].type = "human"
                      THEN CHOOSE i \in DOMAIN kept :
                               /\ kept[i].type = "human"
                               /\ \A j \in 1..(i - 1) : kept[j].type # "human"
                      ELSE Len(kept) + 1
    IN  IF Len(result) > TRIM_THRESHOLD
        THEN SubSeq(kept, firstHuman, Len(kept))
        ELSE result

\* the state after one Command.update went through the channel reducers:
\* messages uses add_messages, step_results uses operator.add, every other
\* channel keeps the last value written
ApplyUpdate(s, u) ==
    [ question |-> Get(u, "question", s.question),
      messages |-> IF "messages" \in DOMAIN u
                   THEN add_messages(s.messages, u.messages) ELSE s.messages,
      clarification_question |-> Get(u, "clarification_question", s.clarification_question),
      query_plan |-> Get(u, "query_plan", s.query_plan),
      current_step |-> Get(u, "current_step", s.current_step),
      total_steps |-> Get(u, "total_steps", s.total_steps),
      step_results |-> s.step_results \o Get(u, "step_results", <<>>),
      current_schema |-> Get(u, "current_schema", s.current_schema),
      current_context |-> Get(u, "current_context", s.current_context),
      current_query |-> Get(u, "current_query", s.current_query),
      retry_count |-> Get(u, "retry_count", s.retry_count),
      max_retries |-> Get(u, "max_retries", s.max_retries),
      status |-> Get(u, "status", s.status),
      final_results |-> Get(u, "final_results", s.final_results),
      error |-> Get(u, "error", s.error) ]

RECURSIVE ApplyWrites(_, _)
ApplyWrites(s, ws) ==
    IF ws = <<>> THEN s
    ELSE ApplyWrites(ApplyUpdate(s, Head(ws).update), Tail(ws))

\* ------------------------------------------------------ long-term memory
DefaultThreadId == "default"

\* to_archive = result[:-KEEP_COUNT]
to_archive(left, right) ==
    LET result == left \o right
    IN  SubSeq(result, 1, Len(result) - KEEP_COUNT)

\* mutant of _archive_messages_async: archival runs inside the reducer and
\* its failure reaches the caller
archive_messages_inline(messages, thread_id, up) ==
    [ raised |-> ~up,
      job |-> [messages |-> messages, thread_id |-> thread_id,
               phase |-> IF up THEN "done" ELSE "failed"] ]

\* _archive_messages_async: starts a daemon thread for _do_archive and
\* returns
archive_messages_async(messages, thread_id, up) ==
    [ raised |-> FALSE,
      job |-> [messages |-> messages, thread_id |-> thread_id, phase |-> "started"] ]

\* the call add_messages makes when it trims: it passes no thread_id, so the
\* parameter takes its default
ArchiveCall(left, right, up) ==
    archive_messages_async(to_archive(left, right), DefaultThreadId, up)

Trims(left, right) == Len(left \o right) > TRIM_THRESHOLD

\* the archival threads started while the writes ws of a superstep go
\* through the reducers
RECURSIVE ArchiveCalls(_, _, _)
ArchiveCalls(s, ws, up) ==
    IF ws = <<>> THEN <<>>
    ELSE LET u == Head(ws).update
         IN  (IF "messages" \in DOMAIN u /\ Trims(s.messages, u.messages)
              THEN <<ArchiveCall(s.messages, u.messages, up).job>>
              ELSE <<>>)
             \o ArchiveCalls(ApplyUpdate(s, u), Tail(ws), up)

\* mutant of _extract_message_pairs: a human message is paired with the
\* message after it, whatever its type
RECURSIVE extract_message_pairs_any_next(_)
extract_message_pairs_any_next(messages) ==
    IF messages = <<>> THEN <<>>
    ELSE IF messages[1].type = "human" /\ Len(messages) > 1
         THEN <<[question |-> messages[1].question, ai_response |-> messages[2].question]>>
              \o extract_message_pairs_any_next(SubSeq(messages, 3, Len(messages)))
         ELSE extract_message_pairs_any_next(Tail(messages))

\* LongTermMemory._extract_message_pairs: a human message directly followed
\* by an ai message is a pair, any other message is skipped
RECURSIVE extract_message_pairs(_)
extract_message_pairs(messages) ==
    IF messages = <<>> THEN <<>>
    ELSE IF /\ messages[1].type = "human"
            /\ Len(messages) > 1
            /\ messages[2].type = "ai"
         THEN <<[question |-> messages[1].question, ai_response |-> messages[2].question]>>
              \o extract_message_pairs(SubSeq(messages, 3, Len(messages)))
         ELSE extract_message_pairs(Tail(messages))

\* the payload of the point LongTermMemory.archive builds for one pair
Record(pair, thread_id) ==
    [thread_id |-> thread_id, question |-> pair.question, ai_response |-> pair.ai_response]

\* LongTermMemory.archive: the points it upserts
archive(messages, thread_id) ==
    LET pairs == extract_message_pairs(messages)
    IN  [i \in DOMAIN pairs |-> Record(pairs[i], thread_id)]

\* ---------------------------------------------------------------- nodes
\* state["query_plan"]["steps"][state["current_step"]] raises when there is
\* no plan or no such step
HasStep(s) ==
    /\ ~s.query_plan.is_none
    /\ s.current_step + 1 \in DOMAIN s.query_plan.steps
CurrentStep(s) == s.query_plan.steps[s.current_step + 1]

intent_node(s, outcome) ==
    IF outcome.raises
    THEN Command([error |-> ErrorOf("intent_failed", FALSE, <<>>)], {"error_handler"})
    ELSE IF outcome.plan.steps = <<>>
    THEN Command([error |-> ErrorOf("no_valid_plan", FALSE, <<>>)], {"error_handler"})
    ELSE Command([query_plan |-> outcome.plan,
                  total_steps |-> Len(outcome.plan.steps),
                  current_step |-> 0,
                  retry_count |-> 0], {})

ValidationError(check, step) == [check |-> check, step |-> step]

RECURSIVE DatabaseErrors(_)
DatabaseErrors(steps) ==
    IF steps = <<>> THEN <<>>
    ELSE (IF Head(steps).database \notin valid_dbs
          THEN <<ValidationError("database", Head(steps).step)>> ELSE <<>>)
         \o DatabaseErrors(Tail(steps))

RECURSIVE DependsOnErrors(_)
DependsOnErrors(steps) ==
    IF steps = <<>> THEN <<>>
    ELSE (IF Head(steps).depends_on # NoneInt /\ Head(steps).depends_on >= Head(steps).step
          THEN <<ValidationError("depends_on", Head(steps).step)>> ELSE <<>>)
         \o DependsOnErrors(Tail(steps))

\* the errors list plan_validator_node builds for a plan that has steps
PlanErrors(steps) ==
    LET n == Len(steps)
        step_ids == [i \in 1..n |-> steps[i].step]
        expected_from_0 == [i \in 1..n |-> i - 1]
        expected_from_1 == [i \in 1..n |-> i]
    IN  (IF n > 1 /\ step_ids # expected_from_0 /\ step_ids # expected_from_1
         THEN <<ValidationError("contiguous", NoneInt)>> ELSE <<>>)
        \o DatabaseErrors(steps)
        \o (IF n > 1 THEN DependsOnErrors(steps) ELSE <<>>)

plan_validator_node(s) ==
    IF s.query_plan.is_none
    THEN Raise("AttributeError")
    ELSE IF s.query_plan.steps = <<>>
    THEN Command([error |-> ErrorOf("validation", FALSE, <<ValidationError("empty", NoneInt)>>)],
                 {"error_handler"})
    ELSE IF PlanErrors(s.query_plan.steps) # <<>>
    THEN Command([error |-> ErrorOf("validation", FALSE, PlanErrors(s.query_plan.steps))],
                 {"error_handler"})
    ELSE Command(NoUpdate, {})

\* mutant of rag_node: the retry counter is not reset for the new step
rag_node_keeps_retry_count(s) ==
    IF ~HasStep(s) THEN Raise("LookupError")
    ELSE Command([current_schema |-> SchemaFor(s.current_step)], {})

rag_node(s) ==
    IF ~HasStep(s) THEN Raise("LookupError")
    ELSE Command([current_schema |-> SchemaFor(s.current_step), retry_count |-> 0], {})

\* mutant of sql_gen_node: a failed generation is swallowed
sql_gen_node_swallows(s, generated) ==
    IF ~HasStep(s) THEN Raise("LookupError")
    ELSE IF ~generated THEN Command([current_query |-> NoQuery], {})
    ELSE Command([current_query |-> QueryFor(s.question, s.current_step)], {})

\* sql_gen_node, the context handed to generator.generate: the current
\* context when there is one, otherwise what the latest assistant message
\* of the window offers (its result sample, which may hold nothing)
context_parts(s) ==
    (IF s.current_context # NoText THEN <<s.current_context>> ELSE <<>>)
    \o (IF s.current_context = NoText /\ s.messages # <<>>
        THEN <<[kind |-> "history", step |-> 0, rows |-> 0, text |-> ""]>>
        ELSE <<>>)

\* generated: TRUE when generator.generate returned a text, FALSE when it raised
sql_gen_node(s, generated) ==
    IF ~HasStep(s) THEN Raise("LookupError")
    ELSE IF ~generated THEN Raise("GenerationError")
    ELSE Command([current_query |-> QueryFor(s.question, s.current_step)], {})

ExecOutcomes ==
    { [ok |-> TRUE, result |-> r, error_msg |-> ""] : r \in ResultSets } \cup
    { [ok |-> FALSE, result |-> <<>>, error_msg |-> e] : e \in ErrorTexts }

\* execute_node, the last step of the plan returned rows (or none)
terminal_step_done(s, result) ==
    Command([step_results |-> <<StepResult(s.current_step, CurrentStep(s).database,
                                           s.current_query, result, NoError)>>],
            {"aggregate"})

\* execute_node, a step that has successors returned no row
intermediate_step_empty(s) ==
    LET error_msg == ErrorOf("no_result_step", FALSE, <<s.current_step>>)
    IN  Command([status |-> "no_result",
                 error |-> error_msg,
                 step_results |-> <<StepResult(s.current_step, CurrentStep(s).database,
                                               s.current_query, <<>>, error_msg)>>,
                 final_results |-> <<>>],
                {"error_handler"})

\* mutant of intermediate_step_done: the next step goes to generation at once
intermediate_step_done_skips_rag(s, result) ==
    Command([step_results |-> <<StepResult(s.current_step, CurrentStep(s).database,
                                           s.current_query, result, NoError)>>,
             current_step |-> s.current_step + 1,
             current_context |-> ContextSummary(s.current_step, result)],
            {"sql_gen"})

\* mutant of intermediate_step_done: the context of the step is left as it was
intermediate_step_done_keeps_context(s, result) ==
    Command([step_results |-> <<StepResult(s.current_step, CurrentStep(s).database,
                                           s.current_query, result, NoError)>>,
             current_step |-> s.current_step + 1],
            {"rag"})

\* execute_node, a step that has successors returned rows
intermediate_step_done(s, result) ==
    Command([step_results |-> <<StepResult(s.current_step, CurrentStep(s).database,
                                           s.current_query, result, NoError)>>,
             current_step |-> s.current_step + 1,
             current_context |-> ContextSummary(s.current_step, result)],
            {"rag"})

\* mutant of execute_success: an empty intermediate result is passed on
execute_success_ignores_empty(s, result) ==
    IF s.current_step + 1 >= s.total_steps
    THEN terminal_step_done(s, result)
    ELSE intermediate_step_done(s, result)

\* mutant of execute_success: the step after the last one is not the end
execute_success_past_end(s, result) ==
    LET new_step == s.current_step + 1
    IN  IF new_step > s.total_steps
        THEN terminal_step_done(s, result)
        ELSE IF result = <<>>
        THEN intermediate_step_empty(s)
        ELSE intermediate_step_done(s, result)

\* execute_node, the try block after conn.execute returned
execute_success(s, result) ==
    LET new_step == s.current_step + 1
    IN  IF new_step >= s.total_steps
        THEN terminal_step_done(s, result)
        ELSE IF result = <<>>
        THEN intermediate_step_empty(s)
        ELSE intermediate_step_done(s, result)

\* mutant of execute_failure: one retry more than max_retries
execute_failure_off_by_one(s, error_msg) ==
    IF is_retryable(error_msg) /\ s.retry_count <= s.max_retries
    THEN Command([retry_count |-> s.retry_count + 1,
                  current_context |-> RetryContext(s.current_step, error_msg)],
                 {"sql_gen"})
    ELSE Command([error |-> ErrorOf("execute_failed", s.retry_count >= s.max_retries,
                                    <<error_msg>>)],
                 {"error_handler"})

\* mutant of execute_failure: any error is retried while retries are left
execute_failure_retries_any(s, error_msg) ==
    IF is_retryable(error_msg) \/ s.retry_count < s.max_retries
    THEN Command([retry_count |-> s.retry_count + 1,
                  current_context |-> RetryContext(s.current_step, error_msg)],
                 {"sql_gen"})
    ELSE Command([error |-> ErrorOf("execute_failed", s.retry_count >= s.max_retries,
                                    <<error_msg>>)],
                 {"error_handler"})

\* execute_node, the except block
execute_failure(s, error_msg) ==
    LET retry_count == s.retry_count
        max_retries == s.max_retries
    IN  IF is_retryable(error_msg) /\ retry_count < max_retries
        THEN Command([retry_count |-> retry_count + 1,
                      current_context |-> RetryContext(s.current_step, error_msg)],
                     {"sql_gen"})
        ELSE Command([error |-> ErrorOf("execute_failed", retry_count >= max_retries,
                                        <<error_msg>>)],
                     {"error_handler"})

execute_node(s, outcome) ==
    IF ~HasStep(s) THEN Raise("LookupError")
    ELSE IF outcome.ok THEN execute_success(s, outcome.result)
    ELSE execute_failure(s, outcome.error_msg)

RECURSIVE SqlQueries(_)
SqlQueries(step_results) ==
    IF step_results = <<>> THEN <<>>
    ELSE (IF Head(step_results).query # NoQuery
          THEN <<[database |-> Head(step_results).database, query |-> Head(step_results).query]>>
          ELSE <<>>)
         \o SqlQueries(Tail(step_results))

\* mutant of aggregate_node: the status does not depend on the rows
aggregate_node_always_success(s) ==
    LET final_results == IF s.step_results # <<>>
                         THEN s.step_results[Len(s.step_results)].results
                         ELSE <<>>
    IN  Command([status |-> "success",
                 final_results |-> final_results,
                 messages |-> <<HumanMessage(s.question), AIMessage(s.question)>>],
                {})

aggregate_node(s) ==
    LET final_results == IF s.step_results # <<>>
                         THEN s.step_results[Len(s.step_results)].results
                         ELSE <<>>
        has_results == Len(final_results) > 0
    IN  Command([status |-> IF has_results THEN "success" ELSE "no_result",
                 final_results |-> final_results,
                 messages |-> <<HumanMessage(s.question),
                                AIMessage(s.question)>>],
                {})

\* mutant of error_node: the question of the failed turn is recorded
error_node_records_question(s) ==
    Command([status |-> IF s.status \in {"no_result"} THEN s.status ELSE "error",
             final_results |-> <<>>,
             error |-> s.error,
             messages |-> <<HumanMessage(s.question)>>],
            {})

error_node(s) ==
    Command([status |-> IF s.status \in {"no_result"} THEN s.status ELSE "error",
             final_results |-> <<>>,
             error |-> s.error],
            {})

\* ------------------------------------------------------------ scheduler
Gotos(ws) == UNION { ws[i].goto : i \in DOMAIN ws } \ {END}

\* A node of the running superstep returned cmd.  A raise ends graph.invoke
\* with the exception and leaves the checkpointed channels as they were.
\* The last return of a superstep applies the collected updates and
\* schedules the next superstep; the run stops when nothing is scheduled or
\* when a scheduled node is in interrupt_before.
Finish(node, cmd, events) ==
    LET ws == Append(writes, [node |-> node, update |-> cmd.update,
                              goto |-> cmd.goto \cup StaticEdges(node)])
        rest == tasks \ {node}
        scheduled == Gotos(ws)
    IN  /\ log' = log \o events
        /\ UNCHANGED <<response, turn, history>>
        /\ UNCHANGED <<session, store, store_up, last_append, retrieved, fusion_vars, context_vars, clarify_vars>>
        /\ IF cmd.raised
           THEN /\ pc' = "raised"
                /\ exc' = cmd.exc
                /\ tasks' = {}
                /\ writes' = <<>>
                /\ next' = {}
                /\ UNCHANGED <<state, jobs>>
           ELSE IF rest # {}
           THEN /\ tasks' = rest
                /\ writes' = ws
                /\ UNCHANGED <<state, next, pc, exc, jobs>>
           ELSE /\ state' = ApplyWrites(state, ws)
                /\ jobs' = jobs \o ArchiveCalls(state, ws, store_up)
                /\ writes' = <<>>
                /\ UNCHANGED exc
                /\ IF scheduled = {} \/ scheduled \cap InterruptBefore # {}
                   THEN /\ tasks' = {}
                        /\ next' = scheduled
                        /\ pc' = "returned"
                   ELSE /\ tasks' = scheduled
                        /\ UNCHANGED <<next, pc>>

\* --------------------------------------------------------------- actions
PlannerOutcomes ==
    { [raises |-> TRUE, plan |-> NonePlan] } \cup
    { [raises |-> FALSE, plan |-> p] : p \in QueryPlan }

\* mutant of input_state: the status of the previous turn is not reset
input_state_keeps_status(question) ==
    [ question |-> question,
      query_plan |-> NonePlan,
      current_step |-> 0,
      total_steps |-> 0,
      step_results |-> <<>>,
      current_schema |-> NoText,
      current_context |-> NoText,
      current_query |-> NoQuery,
      retry_count |-> 0,
      max_retries |-> DefaultMaxRetries,
      final_results |-> <<>>,
      error |-> NoError,
      clarification_question |-> "" ]

\* mutant of input_state: the position of the previous turn is not reset
input_state_keeps_position(question) ==
    [ question |-> question,
      status |-> "running",
      query_plan |-> NonePlan,
      total_steps |-> 0,
      step_results |-> <<>>,
      current_schema |-> NoText,
      current_context |-> NoText,
      current_query |-> NoQuery,
      max_retries |-> DefaultMaxRetries,
      final_results |-> <<>>,
      error |-> NoError,
      clarification_question |-> "" ]

\* web_app.query up to graph.invoke: the input of a new turn resets the
\* per-turn channels (a list written to step_results is added to it)
input_state(question) ==
    [ question |-> question,
      status |-> "running",
      query_plan |-> NonePlan,
      current_step |-> 0,
      total_steps |-> 0,
      step_results |-> <<>>,
      current_schema |-> NoText,
      current_context |-> NoText,
      current_query |-> NoQuery,
      retry_count |-> 0,
      max_retries |-> DefaultMaxRetries,
      final_results |-> <<>>,
      error |-> NoError,
      clarification_question |-> "" ]

NoResponse ==
    [status |-> "none", result_count |-> 0, sql_queries |-> <<>>,
     clarification_question |-> "", error |-> NoError]

\* mutant of HandlerFree: a request is taken while graph.invoke runs
HandlerFree_during_invoke == pc \in {"idle", "invoke"}

\* query is a coroutine that never awaits: the event loop runs one handler
\* from its first line to its return before it takes the next request
HandlerFree == pc = "idle"

SubmitTurn ==
    /\ HandlerFree
    /\ turn < MaxTurns
    /\ turn' = turn + 1
    /\ state' = ApplyUpdate(state, input_state(turn + 1))
    /\ tasks' = {"intent"}
    /\ writes' = <<>>
    /\ next' = {}
    /\ pc' = "invoke"
    /\ exc' = ""
    /\ log' = <<>>
    /\ response' = NoResponse
    /\ UNCHANGED <<history, memory_vars, fusion_vars, context_vars, clarify_vars>>

Intent ==
    /\ pc = "invoke" /\ "intent" \in tasks
    /\ \E outcome \in PlannerOutcomes :
          Finish("intent", intent_node(state, outcome),
                 <<Event("intent", 0, ~outcome.raises /\ outcome.plan.steps # <<>>, 0, FALSE)>>)

PlanValidator ==
    /\ pc = "invoke" /\ "plan_validator" \in tasks
    /\ LET cmd == plan_validator_node(state)
       IN  Finish("plan_validator", cmd,
                  IF cmd.raised THEN <<>>
                  ELSE <<Event("validate", 0, cmd.goto = {}, 0, FALSE)>>)

Rag ==
    /\ pc = "invoke" /\ "rag" \in tasks
    /\ LET cmd == rag_node(state)
       IN  Finish("rag", cmd,
                  IF cmd.raised THEN <<>>
                  ELSE <<Event("rag", state.current_step, TRUE, 0, FALSE)>>)

SqlGen ==
    /\ pc = "invoke" /\ "sql_gen" \in tasks
    /\ \E generated \in BOOLEAN :
          Finish("sql_gen", sql_gen_node(state, generated),
                 IF ~HasStep(state) THEN <<>>
                 ELSE <<GenEvent(state.current_step, generated, context_parts(state))>>)

Execute ==
    /\ pc = "invoke" /\ "execute" \in tasks
    /\ \E outcome \in ExecOutcomes :
          Finish("execute", execute_node(state, outcome),
                 IF ~HasStep(state) THEN <<>>
                 ELSE <<Event("exec", state.current_step, outcome.ok, Len(outcome.result),
                              ~outcome.ok /\ is_retryable(outcome.error_msg))>>)

Aggregate ==
    /\ pc = "invoke" /\ "aggregate" \in tasks
    /\ Finish("aggregate", aggregate_node(state), <<Event("aggregate", 0, TRUE, 0, FALSE)>>)

ErrorHandler ==
    /\ pc = "invoke" /\ "error_handler" \in tasks
    /\ Finish("error_handler", error_node(state), <<Event("error_handler", 0, TRUE, 0, FALSE)>>)

\* mutant of ExceptResponse: the status of the failed turn is not an error
ExceptResponse_unknown_status(e) ==
    [NoResponse EXCEPT !.status = "unknown", !.error = ErrorOf("exception", FALSE, <<e>>)]

\* the QueryResponse of the except branch of web_app.query
ExceptResponse(e) ==
    [NoResponse EXCEPT !.status = "error", !.error = ErrorOf("exception", FALSE, <<e>>)]

\* web_app.query after graph.invoke returned
QueryReturn ==
    /\ pc = "returned"
    /\ response' = [ status |-> state.status,
                     result_count |-> Len(state.final_results),
                     sql_queries |-> SqlQueries(state.step_results),
                     clarification_question |->
                         IF "wait_clarification" \in next
                         THEN state.clarification_question ELSE "",
                     error |-> state.error ]
    /\ history' = Append(history, state.status)
    /\ pc' = "idle"
    /\ UNCHANGED <<state, tasks, writes, next, exc, turn, log>>
    /\ UNCHANGED <<memory_vars, fusion_vars, context_vars, clarify_vars>>

\* web_app.query when graph.invoke raised
QueryExcept ==
    /\ pc = "raised"
    /\ response' = ExceptResponse(exc)
    /\ history' = Append(history, "error")
    /\ pc' = "idle"
    /\ UNCHANGED <<state, tasks, writes, next, exc, turn, log>>
    /\ UNCHANGED <<memory_vars, fusion_vars, context_vars, clarify_vars>>

\* the channels of a thread the checkpointer has nothing for
InitialState ==
    [ question |-> 0, messages |-> <<>>, clarification_question |-> "",
      query_plan |-> NonePlan, current_step |-> 0, total_steps |-> 0,
      step_results |-> <<>>, current_schema |-> NoText,
      current_context |-> NoText, current_query |-> NoQuery,
      retry_count |-> 0, max_retries |-> DefaultMaxRetries,
      status |-> "running", final_results |-> <<>>, error |-> NoError ]

NoAppend == [left |-> <<>>, right |-> <<>>, count |-> 0, raised |-> FALSE]
NoRetrieval == [query |-> 0, thread_id |-> "", limit |-> 0, records |-> <<>>, called |-> FALSE]

WorkflowQuiet ==
    /\ tasks = {}
    /\ writes = <<>>
    /\ next = {}
    /\ pc = "idle"
    /\ exc = ""
    /\ response = NoResponse
    /\ turn = 0
    /\ log = <<>>
    /\ history = <<>>

WorkflowIdle == state = InitialState /\ WorkflowQuiet

MemoryIdle ==
    /\ session = "session-1"
    /\ jobs = <<>>
    /\ store = <<>>
    /\ store_up = TRUE
    /\ last_append = NoAppend
    /\ retrieved = NoRetrieval

FusionIdle ==
    /\ es_hits = <<>>
    /\ qdrant_hits = <<>>
    /\ keyword_results = <<>>
    /\ semantic_results = <<>>
    /\ searched = <<>>
    /\ top_k = 0
    /\ fused = <<>>

\* ------------------------------------------------ format_context
\* The text of format_context is modelled by its length: a result set is
\* `total` rows equal to `row`, a row is one column `field` whose value
\* is a string of `chars` plain characters.
DefaultMaxRows == 20         \* max_rows
DefaultMaxTokens == 2000     \* max_tokens
IdsKept == 10                \* results[:10]
ManyRows == 1000

key_fields == {"id", "serial", "client_id", "name", "device_id", "node_id"}

NoRow == [field |-> "", chars |-> 0]

\* len(str(n)) of a count
RECURSIVE Digits(_)
Digits(n) == IF n < 10 THEN 1 ELSE 1 + Digits(n \div 10)

\* len(str({field: value})): braces, the quoted name, ': ', the quoted value.
\* The row has one column, so the dict of its key fields and the dict of
\* its first three columns are the same dict
SummaryChars(row) == 1 + (Len(row.field) + 2) + 2 + (row.chars + 2) + 1

\* len(str(ids)) of a list of m values of the row: brackets, the quoted
\* values, ', ' between them
IdsChars(row, count) ==
    IF count = 0 THEN 2 ELSE 2 + count * (row.chars + 2) + 2 * (count - 1)

\* len of "上一步查询返回 {total_count} 条记录"
HeaderChars(total_count) == 8 + Digits(total_count) + 4

\* format_context: the length of the text it returns, and which text it is
format_context(results, max_rows, max_tokens) ==
    IF results.total = 0 THEN [tier |-> "empty", chars |-> 8]
    ELSE LET total_count == results.total
             truncated == total_count > max_rows
             shown == IF truncated THEN max_rows ELSE total_count
             \* header, "（仅显示前 {max_rows} 条）", ":\n", the summaries
             \* joined by "\n"
             context == HeaderChars(total_count)
                        + (IF truncated THEN 6 + Digits(max_rows) + 3 ELSE 0)
                        + 2 + shown * SummaryChars(results.row) + (shown - 1)
             \* ids of results[:10], the rows kept by the row limit, that
             \* have a non-empty id or serial
             kept == IF shown < IdsKept THEN shown ELSE IdsKept
             ids == IF results.row.field \in {"id", "serial"} /\ results.row.chars > 0
                    THEN kept ELSE 0
             \* header, "，关键ID: ", str(ids)
             collapsed == HeaderChars(total_count) + 7 + IdsChars(results.row, ids)
         IN  IF context \div 4 > max_tokens
             THEN [tier |-> "ids", chars |-> collapsed]
             ELSE [tier |-> "rows", chars |-> context]

\* format_context was not called
NoCompression == [called |-> FALSE, total |-> 0, row |-> NoRow, tier |-> "", chars |-> 0]

ContextIdle == compressed = NoCompression

\* ------------------------------------------------ the clarification loop
max_clarifications == 2
max_clarification_loops == 3

NoQuestion == ""             \* Python None of clarification_question

\* what QueryParser.parse returns: a confidence and, possibly, a question
\* to put to the user; one question holds an entity keyword (which device),
\* the other holds none (which period)
NoParsed == [confidence |-> "", clarification_question |-> NoQuestion]
EntityQuestions == {"which device"}
ParsedQueries ==
    [confidence : {"high", "medium", "low"},
     clarification_question : {NoQuestion, "which device", "which period"}]

\* any(kw in parsed.clarification_question for kw in entity_related_keywords)
clarification_is_entity_related(question) == question \in EntityQuestions

\* the channels of Text2SQLState the two nodes use; has_entity_context
\* stands for the serial and client_id the caller passed
NoParsing ==
    [has_entity_context |-> FALSE, clarification_count |-> 0,
     skip_clarification |-> FALSE, clarification_question |-> NoQuestion,
     parsed_query |-> NoParsed]

\* every one of these channels keeps the last value written
ParserUpdate(s, u) ==
    [ has_entity_context |-> s.has_entity_context,
      clarification_count |-> Get(u, "clarification_count", s.clarification_count),
      skip_clarification |-> Get(u, "skip_clarification", s.skip_clarification),
      clarification_question |-> Get(u, "clarification_question", s.clarification_question),
      parsed_query |-> Get(u, "parsed_query", s.parsed_query) ]

\* mutant of query_parser_node: the number of clarifications is not looked at
query_parser_node_uncounted(s, parsed) ==
    LET skip_entity_clarification ==
            /\ s.has_entity_context
            /\ parsed.clarification_question # NoQuestion
            /\ clarification_is_entity_related(parsed.clarification_question)
        needs_clarify ==
            /\ parsed.confidence = "low"
            /\ parsed.clarification_question # NoQuestion
            /\ ~s.skip_clarification
            /\ ~skip_entity_clarification
    IN  IF needs_clarify
        THEN Command([parsed_query |-> parsed,
                      clarification_question |-> parsed.clarification_question],
                     {"clarify"})
        ELSE Command([parsed_query |-> parsed, clarification_question |-> NoQuestion],
                     {"intent"})

\* query_parser_node, after parser.parse returned `parsed`
query_parser_node(s, parsed) ==
    LET skip_entity_clarification ==
            /\ s.has_entity_context
            /\ parsed.clarification_question # NoQuestion
            /\ clarification_is_entity_related(parsed.clarification_question)
        needs_clarify ==
            /\ parsed.confidence = "low"
            /\ parsed.clarification_question # NoQuestion
            /\ s.clarification_count < max_clarifications
            /\ ~s.skip_clarification
            /\ ~skip_entity_clarification
    IN  IF needs_clarify
        THEN Command([parsed_query |-> parsed,
                      clarification_question |-> parsed.clarification_question],
                     {"clarify"})
        ELSE Command([parsed_query |-> parsed, clarification_question |-> NoQuestion],
                     {"intent"})

\* clarify_node
clarify_node(s) ==
    Command([clarification_count |-> s.clarification_count + 1,
             clarification_question |-> s.clarification_question],
            {"wait_clarification"})

\* main.handle_clarification: the input of the next graph.invoke
Answers == {"skip", "answer"}
update_state(answer) ==
    IF answer = "skip"
    THEN [skip_clarification |-> TRUE, clarification_question |-> NoQuestion]
    ELSE [clarification_question |-> NoQuestion]

\* no question is being parsed
ClarifyIdle ==
    /\ parsing = NoParsing
    /\ parser_next = {}
    /\ loop_count = 0
    /\ asked = <<>>

Init == WorkflowIdle /\ MemoryIdle /\ FusionIdle /\ ContextIdle /\ ClarifyIdle

Next ==
    \/ SubmitTurn
    \/ Intent
    \/ PlanValidator
    \/ Rag
    \/ SqlGen
    \/ Execute
    \/ Aggregate
    \/ ErrorHandler
    \/ QueryReturn
    \/ QueryExcept

Spec == Init /\ [][Next]_vars

\* ------------------------------------------------ the session memory
\* A conversation is a run of questions and answers: position p holds the
\* question (p + 1) / 2 when p is odd and its answer when p is even.
MessageAt(p) == IF p % 2 = 1 THEN HumanMessage((p + 1) \div 2) ELSE AIMessage(p \div 2)
PositionOf(m) == IF m.type = "human" THEN 2 * m.question - 1 ELSE 2 * m.question
Talk(from, to) == [i \in 1..(to - from + 1) |-> MessageAt(from + i - 1)]

SessionIds == {"session-1", "session-2"}

\* the windows of a session that is two messages or less away from the
\* threshold, starting with a question or with an answer
Windows ==
    { Talk(from, from + n - 1) : from \in 1..2, n \in (TRIM_THRESHOLD - 2)..TRIM_THRESHOLD }

\* what aggregate_node writes next to the messages
AggregateUpdate(right) ==
    [status |-> "success", final_results |-> <<1>>, messages |-> right]

\* A write of one or two messages to the messages channel goes through
\* add_messages, which starts an archival thread when it trims.
AppendMessages ==
    /\ last_append.count < MaxAppends
    /\ \E n \in 1..2 :
          LET left == state.messages
              from == PositionOf(left[Len(left)]) + 1
              right == Talk(from, from + n - 1)
              call == ArchiveCall(left, right, store_up)
              raised == Trims(left, right) /\ call.raised
          IN  /\ last_append' = [left |-> left, right |-> right,
                                 count |-> last_append.count + 1, raised |-> raised]
              /\ state' = IF raised THEN state
                          ELSE ApplyUpdate(state, AggregateUpdate(right))
              /\ jobs' = IF Trims(left, right) THEN Append(jobs, call.job) ELSE jobs
    /\ UNCHANGED <<tasks, writes, next, pc, exc, response, turn, log, history>>
    /\ UNCHANGED <<session, store, store_up, retrieved, fusion_vars, context_vars, clarify_vars>>

\* _do_archive in its thread: LongTermMemory().archive(messages, thread_id);
\* every exception is logged and swallowed, a failed upsert returns 0
DoArchive ==
    /\ \E i \in DOMAIN jobs :
          /\ jobs[i].phase = "started"
          /\ IF store_up
             THEN /\ store' = store \o archive(jobs[i].messages, jobs[i].thread_id)
                  /\ jobs' = [jobs EXCEPT ![i].phase = "done"]
             ELSE /\ jobs' = [jobs EXCEPT ![i].phase = "failed"]
                  /\ UNCHANGED store
    /\ UNCHANGED <<workflow_vars, session, store_up, last_append, retrieved, fusion_vars, context_vars, clarify_vars>>

\* the embedding service or the collection stops answering
StoreOutage ==
    /\ store_up
    /\ store_up' = FALSE
    /\ UNCHANGED <<workflow_vars, session, jobs, store, last_append, retrieved, fusion_vars, context_vars, clarify_vars>>

\* and answers again
StoreRecovery ==
    /\ ~store_up
    /\ store_up' = TRUE
    /\ UNCHANGED <<workflow_vars, session, jobs, store, last_append, retrieved, fusion_vars, context_vars, clarify_vars>>

MemoryInit ==
    /\ \E w \in Windows : state = [InitialState EXCEPT !.messages = w]
    /\ WorkflowQuiet
    /\ session \in SessionIds
    /\ jobs = <<>>
    /\ store = <<>>
    /\ store_up = TRUE
    /\ last_append = NoAppend
    /\ retrieved = NoRetrieval
    /\ FusionIdle
    /\ ContextIdle
    /\ ClarifyIdle

MemoryNext ==
    \/ AppendMessages
    \/ DoArchive
    \/ StoreOutage
    \/ StoreRecovery

MemorySpec == MemoryInit /\ [][MemoryNext]_vars

\* a started thread gets to run
MemoryLive == MemorySpec /\ WF_vars(DoArchive)

\* ------------------------------------------------ the plan validator
\* the dicts plan_validator_node can be handed as steps: any step number,
\* any of the two databases or another name, depends_on None or any number
AnySteps ==
    UNION { [1..n -> [step : 0..MaxPlan,
                      database : valid_dbs \cup {"redis"},
                      depends_on : {NoneInt} \cup 0..MaxPlan]] : n \in 0..MaxPlan }

\* a turn whose intent_node has stored a plan; plan_validator is scheduled
ValidatorInit ==
    /\ \E steps \in AnySteps :
          state = [InitialState EXCEPT !.question = 1,
                                       !.query_plan = Plan(Clear, steps),
                                       !.total_steps = Len(steps)]
    /\ tasks = {"plan_validator"}
    /\ writes = <<>>
    /\ next = {}
    /\ pc = "invoke"
    /\ exc = ""
    /\ response = NoResponse
    /\ turn = 1
    /\ log = <<>>
    /\ history = <<>>
    /\ MemoryIdle
    /\ FusionIdle
    /\ ContextIdle
    /\ ClarifyIdle

ValidatorNext == PlanValidator

ValidatorSpec == ValidatorInit /\ [][ValidatorNext]_vars

\* ------------------------------------------------ compression of a result
\* the result sets format_context is called with: up to twice the row
\* limit of equal rows, or very many; the column is a key field that is an
\* identifier, a key field that is not, or another column
RowCounts == 0..(2 * DefaultMaxRows) \cup {ManyRows}
RowFields == {"id", "serial", "name", "remark"}
ValueChars == {1, 8, 36} \cup { 100 * h : h \in 1..MaxHundreds }

\* execute_node holds a result and has not compressed it yet
CompressInit ==
    /\ WorkflowIdle
    /\ MemoryIdle
    /\ FusionIdle
    /\ ClarifyIdle
    /\ \E total \in RowCounts, field \in RowFields, chars \in ValueChars :
          compressed = [NoCompression EXCEPT
                           !.total = total,
                           !.row = [field |-> field, chars |-> chars]]

\* context_summary = format_context(result, max_rows=20, max_tokens=2000)
Compress ==
    /\ ~compressed.called
    /\ LET context == format_context(compressed, DefaultMaxRows, DefaultMaxTokens)
       IN  compressed' = [compressed EXCEPT !.called = TRUE,
                                            !.tier = context.tier,
                                            !.chars = context.chars]
    /\ UNCHANGED <<workflow_vars, memory_vars, fusion_vars, clarify_vars>>

CompressNext == Compress

CompressSpec == CompressInit /\ [][CompressNext]_vars

\* ------------------------------------------------ clarification of a question
\* build_text2sql_graph adds none of query_parser, clarify and
\* wait_clarification to the graph.  The loop below is the one the nodes and
\* main.run_query are written for: the Command of a node names the next
\* node, the graph stops before wait_clarification, and the graph.invoke of
\* handle_clarification enters query_parser again.

\* run_query made its first graph.invoke with the input of a new turn
ClarifyInit ==
    /\ WorkflowIdle
    /\ MemoryIdle
    /\ FusionIdle
    /\ ContextIdle
    /\ \E has_entity_context \in BOOLEAN :
          parsing = [NoParsing EXCEPT !.has_entity_context = has_entity_context]
    /\ parser_next = {"query_parser"}
    /\ loop_count = 0
    /\ asked = <<>>

QueryParser ==
    /\ "query_parser" \in parser_next
    /\ \E parsed \in ParsedQueries :
          LET cmd == query_parser_node(parsing, parsed)
          IN  /\ parsing' = ParserUpdate(parsing, cmd.update)
              /\ parser_next' = cmd.goto
    /\ UNCHANGED <<workflow_vars, memory_vars, fusion_vars, context_vars, loop_count, asked>>

Clarify ==
    /\ "clarify" \in parser_next
    /\ LET cmd == clarify_node(parsing)
       IN  /\ parsing' = ParserUpdate(parsing, cmd.update)
           /\ parser_next' = cmd.goto
    /\ UNCHANGED <<workflow_vars, memory_vars, fusion_vars, context_vars, loop_count, asked>>

\* one iteration of the loop of run_query that finds wait_clarification
\* pending: handle_clarification shows the question, reads the answer and
\* invokes the graph with update_state
HandleClarification ==
    /\ loop_count < max_clarification_loops
    /\ "wait_clarification" \in parser_next
    /\ \E answer \in Answers :
          /\ asked' = Append(asked, [question |-> parsing.clarification_question,
                                     answer |-> answer])
          /\ parsing' = ParserUpdate(parsing, update_state(answer))
    /\ parser_next' = {"query_parser"}
    /\ loop_count' = loop_count + 1
    /\ UNCHANGED <<workflow_vars, memory_vars, fusion_vars, context_vars>>

ClarifyNext ==
    \/ QueryParser
    \/ Clarify
    \/ HandleClarification

ClarifySpec == ClarifyInit /\ [][ClarifyNext]_vars

\* ------------------------------------------------- archival of a slice
\* the slices archive can be called with: any run of Human and Assistant
\* messages, each named by its position in the slice
Slices ==
    UNION { { [i \in 1..n |-> [type |-> types[i], question |-> i]] :
                types \in [1..n -> {"human", "ai"}] } : n \in 0..MaxSlice }

\* one archival thread was started with a slice
ArchiveInit ==
    /\ WorkflowIdle
    /\ session = "session-1"
    /\ \E slice \in Slices :
          jobs = <<archive_messages_async(slice, DefaultThreadId, TRUE).job>>
    /\ store = <<>>
    /\ store_up = TRUE
    /\ last_append = NoAppend
    /\ retrieved = NoRetrieval
    /\ FusionIdle
    /\ ContextIdle
    /\ ClarifyIdle

ArchiveNext ==
    \/ DoArchive
    \/ StoreOutage
    \/ StoreRecovery

ArchiveSpec == ArchiveInit /\ [][ArchiveNext]_vars

\* ------------------------------------------ retrieval from the store
QuestionIds == 1..3
NoThread == ""

\* cosine similarity of the embeddings of two questions, in hundredths
Similarity(query, question) ==
    CASE query = question -> 90
      [] query - question \in {-1, 1} -> 50
      [] OTHER -> 30

PointMatches(point, thread_id) == thread_id = NoThread \/ point.thread_id = thread_id

\* the points with ids `ids`, most similar first (the store's own order
\* among equals)
RECURSIVE Ranked(_, _, _)
Ranked(points, ids, query) ==
    IF ids = {} THEN <<>>
    ELSE LET score(i) == Similarity(query, points[i].question)
             best == CHOOSE i \in ids :
                        \A j \in ids : score(i) > score(j) \/ (score(i) = score(j) /\ i <= j)
         IN  <<[payload |-> points[best], score |-> score(best)]>>
             \o Ranked(points, ids \ {best}, query)

\* client.query_points(query, query_filter, limit).points
query_points(points, query, thread_id, limit) ==
    LET ranked == Ranked(points, { i \in DOMAIN points : PointMatches(points[i], thread_id) }, query)
    IN  SubSeq(ranked, 1, IF limit < Len(ranked) THEN limit ELSE Len(ranked))

AboveThreshold(hit) == hit.score >= ScoreThreshold

WithScore(hit) ==
    [thread_id |-> hit.payload.thread_id, question |-> hit.payload.question,
     ai_response |-> hit.payload.ai_response, score |-> hit.score]

\* mutant of retrieve: the hits are returned whatever their score
retrieve_any_score(points, query, thread_id, limit) ==
    LET hits == query_points(points, query, thread_id, limit)
    IN  [i \in DOMAIN hits |-> WithScore(hits[i])]

\* LongTermMemory.retrieve
retrieve(points, query, thread_id, limit) ==
    LET hits == SelectSeq(query_points(points, query, thread_id, limit), AboveThreshold)
    IN  [i \in DOMAIN hits |-> WithScore(hits[i])]

\* the collections retrieval is checked on
Collections ==
    UNION { [1..n -> { Record([question |-> q, ai_response |-> q], t) :
                         q \in QuestionIds, t \in SessionIds }] : n \in 0..MaxRecords }

\* one call of retrieve on the collection
Retrieve ==
    /\ ~retrieved.called
    /\ \E query \in QuestionIds, thread_id \in SessionIds \cup {NoThread}, limit \in 1..MaxRecords :
          retrieved' = [query |-> query, thread_id |-> thread_id, limit |-> limit,
                        records |-> retrieve(store, query, thread_id, limit),
                        called |-> TRUE]
    /\ UNCHANGED <<workflow_vars, session, jobs, store, store_up, last_append, fusion_vars, context_vars, clarify_vars>>

RetrieveInit ==
    /\ WorkflowIdle
    /\ session = "session-1"
    /\ jobs = <<>>
    /\ store \in Collections
    /\ store_up = TRUE
    /\ last_append = NoAppend
    /\ retrieved = NoRetrieval
    /\ FusionIdle
    /\ ContextIdle
    /\ ClarifyIdle

RetrieveNext == Retrieve

RetrieveSpec == RetrieveInit /\ [][RetrieveNext]_vars

\* ---------------------------------------------------- hybrid retrieval
TableNames == {"t_device", "t_client", "t_edge"}
NoName == ""

\* a hit of a backend: the table it describes and the backend it came from,
\* which stands for its payload
Doc(table_name, source) == [table_name |-> table_name, source |-> source]

\* the lists a backend returns: no table twice, at most one hit without a
\* table name
HitLists(source) ==
    { l \in UNION { [1..n -> { Doc(t, source) : t \in TableNames \cup {NoName} }] : n \in 0..MaxList } :
        \A i, j \in DOMAIN l : i # j => l[i].table_name # l[j].table_name }

\* Scores are fractions with the denominator ScoreDen, the product of the
\* k + rank + 1 of every rank a list has: 1 / (k + rank + 1) is Weight.
ScoreDen == LET prod[n \in 0..MaxList] == IF n = 0 THEN 1 ELSE prod[n - 1] * (RrfK + n)
            IN  prod[MaxList]

Weight(k, rank) == ScoreDen \div (k + rank + 1)

\* mutant of AddScore: the contribution replaces the score
AddScore_overwrites(old, weight) == weight

\* scores[doc_id] += 1 / (k + rank + 1)
AddScore(old, weight) == old + weight

\* scores = defaultdict(float); doc_data = {}; `order` is the order in which
\* the keys entered scores
NoScores == [scores |-> <<>>, doc_data |-> <<>>, order |-> <<>>]

\* mutant of Accumulate: every loop stores the payload
Accumulate_last_payload(acc, doc, k, rank, overwrite) ==
    LET doc_id == doc.table_name
        old == IF doc_id \in DOMAIN acc.scores THEN acc.scores[doc_id] ELSE 0
    IN  IF doc_id = NoName THEN acc
        ELSE [ scores |-> (doc_id :> AddScore(old, Weight(k, rank))) @@ acc.scores,
               doc_data |-> (doc_id :> doc) @@ acc.doc_data,
               order |-> IF doc_id \in DOMAIN acc.scores THEN acc.order
                         ELSE Append(acc.order, doc_id) ]

\* one iteration of a loop over a result list; the semantic loop always
\* stores the payload, the keyword loop only for a key that has none
Accumulate(acc, doc, k, rank, overwrite) ==
    LET doc_id == doc.table_name
        old == IF doc_id \in DOMAIN acc.scores THEN acc.scores[doc_id] ELSE 0
    IN  IF doc_id = NoName THEN acc
        ELSE [ scores |-> (doc_id :> AddScore(old, Weight(k, rank))) @@ acc.scores,
               doc_data |-> IF overwrite \/ doc_id \notin DOMAIN acc.doc_data
                            THEN (doc_id :> doc) @@ acc.doc_data
                            ELSE acc.doc_data,
               order |-> IF doc_id \in DOMAIN acc.scores THEN acc.order
                         ELSE Append(acc.order, doc_id) ]

\* for rank, doc in enumerate(results)
RECURSIVE Enumerate(_, _, _, _, _)
Enumerate(acc, results, k, rank, overwrite) ==
    IF rank >= Len(results) THEN acc
    ELSE Enumerate(Accumulate(acc, results[rank + 1], k, rank, overwrite),
                   results, k, rank + 1, overwrite)

\* mutant of First: among equal scores the key that entered last
First_unstable(order, scores) ==
    CHOOSE i \in DOMAIN order :
        \A j \in DOMAIN order :
            \/ scores[order[i]] > scores[order[j]]
            \/ (scores[order[i]] = scores[order[j]] /\ i >= j)

\* mutant of First: lowest score first
First_lowest(order, scores) ==
    CHOOSE i \in DOMAIN order :
        \A j \in DOMAIN order :
            \/ scores[order[i]] < scores[order[j]]
            \/ (scores[order[i]] = scores[order[j]] /\ i <= j)

\* sorted(scores.items(), key=lambda x: -x[1]) is stable: the first of the
\* keys with the highest score, in the order they entered scores
First(order, scores) ==
    CHOOSE i \in DOMAIN order :
        \A j \in DOMAIN order :
            \/ scores[order[i]] > scores[order[j]]
            \/ (scores[order[i]] = scores[order[j]] /\ i <= j)

RECURSIVE Sorted(_, _)
Sorted(order, scores) ==
    IF order = <<>> THEN <<>>
    ELSE LET i == First(order, scores)
         IN  <<order[i]>> \o Sorted(SubSeq(order, 1, i - 1) \o SubSeq(order, i + 1, Len(order)), scores)

FusedResults(acc, top) ==
    LET ids == Sorted(acc.order, acc.scores)
        sorted_ids == SubSeq(ids, 1, IF top < Len(ids) THEN top ELSE Len(ids))
    IN  [ i \in DOMAIN sorted_ids |->
            [ table_name |-> sorted_ids[i],
              source |-> acc.doc_data[sorted_ids[i]].source,
              rrf_score |-> acc.scores[sorted_ids[i]] ] ]

\* mutant of rrf_fusion: the scores of the previous call are kept
rrf_fusion_keeps_scores(keyword, semantic, k, top) ==
    LET start == IF fused = <<>> THEN NoScores
                 ELSE Enumerate(NoScores, fused[Len(fused)].semantic_results, k, 0, TRUE)
    IN  FusedResults(Enumerate(Enumerate(start, semantic, k, 0, TRUE),
                               keyword, k, 0, FALSE), top)

\* HybridRetriever.rrf_fusion
rrf_fusion(keyword, semantic, k, top) ==
    FusedResults(Enumerate(Enumerate(NoScores, semantic, k, 0, TRUE),
                           keyword, k, 0, FALSE), top)

\* mutant of search_keyword: the backend's exception leaves the search
search_keyword_raises(hits, ok) == [raised |-> ~ok, results |-> IF ok THEN hits ELSE <<>>]

\* search_keyword: the hits of the backend; its exception is caught and
\* the list is empty
search_keyword(hits, ok) == [raised |-> FALSE, results |-> IF ok THEN hits ELSE <<>>]

\* search_semantic: the same for the vector store
search_semantic(hits, ok) == [raised |-> FALSE, results |-> IF ok THEN hits ELSE <<>>]

\* get_ddl_for_query: the text handed to rag_node, the fixed text "no table
\* found" for an empty list, the tables in the fused order otherwise
get_ddl_for_query(results) ==
    [ found |-> results # <<>>,
      tables |-> [i \in DOMAIN results |-> results[i].table_name] ]

\* what a finished future adds to the futures that are done: an exception
\* that left the search would leave search_with_details before the fusion
Done(search_type, call) == IF call.raised THEN <<search_type, "raised">> ELSE <<search_type>>

\* the futures as_completed has yielded
Completed == { searched[i] : i \in DOMAIN searched }

\* mutant of ResultSlot: the first future to complete is taken for the
\* keyword search
ResultSlot_by_completion(search_type, before) ==
    IF before = <<>> THEN "keyword" ELSE "semantic"

\* search_type = futures[future]: the list a completed future is stored in
\* is looked up by the future, whatever completed before it
ResultSlot(search_type, before) == search_type

\* the keyword future of search_with_details
SearchKeyword ==
    /\ "keyword" \notin Completed
    /\ \E ok \in BOOLEAN :
          LET call == search_keyword(es_hits, ok)
              slot == ResultSlot("keyword", searched)
          IN  /\ keyword_results' = IF slot = "keyword" THEN call.results ELSE keyword_results
              /\ semantic_results' = IF slot = "semantic" THEN call.results ELSE semantic_results
              /\ searched' = searched \o Done("keyword", call)
    /\ UNCHANGED <<workflow_vars, memory_vars, context_vars, clarify_vars, es_hits, qdrant_hits, top_k, fused>>

\* the semantic future
SearchSemantic ==
    /\ "semantic" \notin Completed
    /\ \E ok \in BOOLEAN :
          LET call == search_semantic(qdrant_hits, ok)
              slot == ResultSlot("semantic", searched)
          IN  /\ keyword_results' = IF slot = "keyword" THEN call.results ELSE keyword_results
              /\ semantic_results' = IF slot = "semantic" THEN call.results ELSE semantic_results
              /\ searched' = searched \o Done("semantic", call)
    /\ UNCHANGED <<workflow_vars, memory_vars, context_vars, clarify_vars, es_hits, qdrant_hits, top_k, fused>>

\* rrf_fusion is called on the joined results and the fused list is
\* formatted for rag_node; then once more on the same lists
RrfFusion ==
    /\ Completed = {"keyword", "semantic"}
    /\ Len(fused) < 2
    /\ fused' = Append(fused,
                       [ keyword_results |-> keyword_results,
                         semantic_results |-> semantic_results,
                         k |-> RrfK, top_k |-> top_k,
                         completed |-> searched,
                         results |-> rrf_fusion(keyword_results, semantic_results, RrfK, top_k),
                         ddl |-> get_ddl_for_query(
                                     rrf_fusion(keyword_results, semantic_results, RrfK, top_k)) ])
    /\ UNCHANGED <<workflow_vars, memory_vars, context_vars, clarify_vars, es_hits, qdrant_hits, keyword_results,
                   semantic_results, searched, top_k>>

FusionInit ==
    /\ WorkflowIdle
    /\ MemoryIdle
    /\ ContextIdle
    /\ ClarifyIdle
    /\ es_hits \in HitLists("es")
    /\ qdrant_hits \in HitLists("qdrant")
    /\ top_k \in 1..MaxList
    /\ keyword_results = <<>>
    /\ semantic_results = <<>>
    /\ searched = <<>>
    /\ fused = <<>>

FusionNext ==
    \/ SearchKeyword
    \/ SearchSemantic
    \/ RrfFusion

FusionSpec == FusionInit /\ [][FusionNext]_vars

\* ------------------------------------------------------------ vocabulary
\* the turn is over and `response` and `log` are those of that turn
TurnDone == pc = "idle" /\ turn > 0

\* a call of a collaborator on behalf of a step: retrieval, generation, execution
IsCall(e) == e.op \in {"rag", "gen", "exec"}

ExecAttempts(step) == { i \in DOMAIN log : log[i].op = "exec" /\ log[i].step = step }

\* log[i] is a successful execution of a step that has successors and it
\* returned no row
EmptyIntermediate(i) ==
    /\ log[i].op = "exec" /\ log[i].ok /\ log[i].rows = 0
    /\ log[i].step + 1 < state.total_steps

\* log[i] is a successful execution of the last step of the plan
TerminalSuccess(i) ==
    /\ log[i].op = "exec" /\ log[i].ok
    /\ log[i].step + 1 >= state.total_steps

\* this step appends to the log the execution of a step that has successors
\* and that returned at least one row
StepAdvances ==
    /\ Len(log') = Len(log) + 1
    /\ LET e == log'[Len(log')]
       IN  e.op = "exec" /\ e.ok /\ e.rows > 0 /\ e.step + 1 < state.total_steps

\* the generation that is scheduled is the first one of a later step
FirstGenerationOfLaterStep ==
    /\ pc = "invoke" /\ tasks = {"sql_gen"}
    /\ state.current_step > 0
    /\ ExecAttempts(state.current_step) = {}

\* log[i] is a generation for a step that has a predecessor
LaterGeneration(i) == log[i].op = "gen" /\ log[i].step > 0

\* log[i] is a generation that follows a failed execution of the same step
Regeneration(i) ==
    /\ log[i].op = "gen"
    /\ \E j \in 1..(i - 1) : log[j].op = "exec" /\ log[j].step = log[i].step /\ ~log[j].ok

\* retrieval, generation or execution is about to run
StepNodeScheduled == pc = "invoke" /\ tasks \cap {"rag", "sql_gen", "execute"} # {}

\* the retrievals, generations and executions of the turn in their order
Calls == SelectSeq(log, IsCall)

\* this step is the return of aggregate_node
AggregateStep ==
    /\ Len(log') = Len(log) + 1
    /\ log'[Len(log')].op = "aggregate"

\* the turn went through aggregate_node
Aggregated == \E i \in DOMAIN log : log[i].op = "aggregate"

\* the messages of the window that record the question
MessagesOf(question) ==
    SelectSeq(state.messages, LAMBDA msg : msg.question = question)

ValidationFailed == \E i \in DOMAIN log : log[i].op = "validate" /\ ~log[i].ok
PlanningFailed == \E i \in DOMAIN log : log[i].op = "intent" /\ ~log[i].ok

\* the graph run of the turn ended at END behind error_handler
EndedInErrorHandler ==
    /\ TurnDone /\ exc = "" /\ next = {}
    /\ log # <<>> /\ log[Len(log)].op = "error_handler"

\* ---------------------------------------------------------------- claims
\* C1: when a step that has successors executes successfully and returns no
\* row, nothing is retrieved, generated or executed afterwards in that turn
\* (no retry of the step, no later step) and the turn ends with no_result.
C1_EmptyIntermediateStops ==
    \A i \in DOMAIN log :
        EmptyIntermediate(i) =>
            /\ \A j \in DOMAIN log : j > i => ~IsCall(log[j])
            /\ TurnDone => response.status = "no_result"

C1_Witness ==
    /\ TurnDone /\ response.status = "no_result"
    /\ \E i \in DOMAIN log : EmptyIntermediate(i) /\ i < Len(log)

\* C2: a step whose execution attempts all fail with a retryable error is
\* executed at most max_retries + 1 times, and when the turn is over (every
\* generation having returned) exactly max_retries + 1 times, with status
\* error, whichever step of the plan it is.
C2_RetryBound ==
    \A k \in 0..(MaxSteps - 1) :
        ( /\ ExecAttempts(k) # {}
          /\ \A i \in ExecAttempts(k) : ~log[i].ok /\ log[i].retryable )
        => /\ Cardinality(ExecAttempts(k)) <= state.max_retries + 1
           /\ ( TurnDone /\ (\A i \in DOMAIN log : log[i].op = "gen" => log[i].ok) )
                => /\ Cardinality(ExecAttempts(k)) = state.max_retries + 1
                   /\ response.status = "error"

C2_Witness ==
    /\ TurnDone /\ response.status = "error"
    /\ \A i \in DOMAIN log : log[i].op = "gen" => log[i].ok
    /\ Cardinality(ExecAttempts(1)) = DefaultMaxRetries + 1
    /\ \A i \in ExecAttempts(1) : ~log[i].ok /\ log[i].retryable
    /\ \E i \in ExecAttempts(0) : ~log[i].ok

\* C3: when the validator finds an error in the plan, no retrieval,
\* generation or execution is invoked in that turn and the turn ends with
\* status error carrying the validator's messages.
C3_ValidationStops ==
    ValidationFailed =>
        /\ \A i \in DOMAIN log : ~IsCall(log[i])
        /\ TurnDone => /\ response.status = "error"
                       /\ response.error.kind = "validation"

\* C4: when the Planner raises or returns a plan without steps, no
\* retrieval, generation or execution is invoked in that turn and the turn
\* ends with status error and an error message.
C4_PlanningFailureStops ==
    PlanningFailed =>
        /\ \A i \in DOMAIN log : ~IsCall(log[i])
        /\ TurnDone => /\ response.status = "error"
                       /\ response.error # NoError

C4_Witness == TurnDone /\ PlanningFailed /\ response.status = "error"

\* C5 as stated: a turn whose last step executed successfully ends with
\* status success, whatever the number of rows.
C5_TerminalAlwaysSuccess ==
    \A i \in DOMAIN log :
        (TerminalSuccess(i) /\ TurnDone) => response.status = "success"

\* C5 as amended: after a successful execution of the last step the next
\* node is aggregate, and the turn ends with status success when the step
\* returned at least one row and with status no_result when it returned none.
C5_TerminalAggregates ==
    \A i \in DOMAIN log :
        TerminalSuccess(i) =>
            /\ i < Len(log) => log[i + 1].op = "aggregate"
            /\ TurnDone => /\ next = {"human_input"}
                           /\ response.status =
                                 IF log[i].rows > 0 THEN "success" ELSE "no_result"

C5_Witness ==
    /\ TurnDone /\ response.status = "no_result"
    /\ \E i \in DOMAIN log : TerminalSuccess(i) /\ log[i].rows = 0

\* C6: a turn that ends in the error handler, or with an exception, has
\* status no_result exactly when a step with successors returned no row in
\* that same turn, and status error otherwise, whatever the outcome of the
\* earlier turns of the session.
C6_NoResultOnlyFromThisTurn ==
    (EndedInErrorHandler \/ (TurnDone /\ exc # "")) =>
        response.status =
            IF \E i \in DOMAIN log : EmptyIntermediate(i) THEN "no_result" ELSE "error"

C6_Witness ==
    /\ EndedInErrorHandler
    /\ Len(history) = 2 /\ history[1] = "no_result" /\ history[2] = "error"
    /\ \E i \in DOMAIN log : log[i].op = "exec" /\ ~log[i].ok

\* C7: after an execution attempt failed with an error that matches no
\* retryable pattern, the next node is the error handler, nothing more is
\* generated or executed in the turn, and the turn ends with status error,
\* whatever the retry counter was.
C7_NonRetryableIsTerminal ==
    \A i \in DOMAIN log :
        (log[i].op = "exec" /\ ~log[i].ok /\ ~log[i].retryable) =>
            /\ i < Len(log) => log[i + 1].op = "error_handler"
            /\ \A j \in DOMAIN log : j > i => ~IsCall(log[j])
            /\ TurnDone => response.status = "error"

C7_Witness ==
    /\ TurnDone /\ response.status = "error" /\ state.retry_count = 1
    /\ \E i \in DOMAIN log : log[i].op = "exec" /\ ~log[i].ok /\ ~log[i].retryable

\* C8: when the generation of a query raises, nothing is executed
\* afterwards in that turn and the caller receives status error with a
\* message.
C8_GenerationFailureIsTerminal ==
    \A i \in DOMAIN log :
        (log[i].op = "gen" /\ ~log[i].ok) =>
            /\ \A j \in DOMAIN log : j > i => log[j].op # "exec"
            /\ TurnDone => /\ response.status = "error"
                           /\ response.error # NoError

C8_Witness ==
    /\ TurnDone /\ response.status = "error"
    /\ \E i \in DOMAIN log : log[i].op = "gen" /\ ~log[i].ok /\ log[i].step = 1

\* C9: a turn makes at most total_steps * (max_retries + 1) execution
\* attempts and runs a bounded number of nodes, a turn that has not
\* answered yet can always take its next transition, and a finished turn
\* has status success, no_result or error.
NodeRunBound == 5 + state.total_steps * (1 + 2 * (state.max_retries + 1))

C9_BoundedTurn ==
    /\ Cardinality({ i \in DOMAIN log : log[i].op = "exec" })
          <= state.total_steps * (state.max_retries + 1)
    /\ Len(log) <= NodeRunBound
    /\ pc # "idle" => ENABLED Next
    /\ TurnDone => response.status \in {"success", "no_result", "error"}

C9_Witness ==
    /\ TurnDone /\ state.total_steps = 2
    /\ Cardinality({ i \in DOMAIN log : log[i].op = "exec" }) = 2 * (state.max_retries + 1)

\* C10: when the plan in use has confidence below 0.5 or asks for
\* clarification, no step of it is retrieved, generated or executed in the
\* turn, and the response carries a clarification question.
C10_LowConfidenceHalts ==
    ( /\ ~state.query_plan.is_none
      /\ \/ state.query_plan.confidence < ConfidenceThreshold
         \/ state.query_plan.needs_clarification )
    => /\ \A i \in DOMAIN log : ~IsCall(log[i])
       /\ TurnDone => response.clarification_question # ""

\* C11: when a turn has returned, step_results holds one entry per step
\* completed in that turn and the response lists only the queries of that
\* turn.
C11_StepResultsOfThisTurn ==
    (TurnDone /\ exc = "") =>
        LET completed == { i \in DOMAIN log : log[i].op = "exec" /\ log[i].ok }
        IN  /\ Len(state.step_results) = Cardinality(completed)
            /\ \A j \in DOMAIN response.sql_queries :
                   response.sql_queries[j].query.question = state.question

\* the write AppendMessages made last went over the threshold
Trimmed == last_append.count > 0 /\ Trims(last_append.left, last_append.right)

Range(seq) == { seq[i] : i \in DOMAIN seq }

\* C12: after an append that took the window over the threshold, the window
\* has at most KEEP_COUNT messages and is empty or starts with a human
\* message.
C12_TrimInvariant ==
    (Trimmed /\ ~last_append.raised) =>
        /\ Len(state.messages) <= KEEP_COUNT
        /\ (state.messages = <<>> \/ state.messages[1].type = "human")

\* the kept slice started with an answer, which was dropped
C12_Witness ==
    /\ Trimmed
    /\ (last_append.left \o last_append.right)
          [Len(last_append.left) + Len(last_append.right) - KEEP_COUNT + 1].type = "ai"
    /\ Len(state.messages) = KEEP_COUNT - 1

C14_ArchivalNeverFailsTurn ==
    /\ last_append.count > 0 =>
          /\ ~last_append.raised
          /\ state.messages = add_messages(last_append.left, last_append.right)
          /\ state.status = "success"
          /\ state.final_results = <<1>>
    /\ last_append.count < MaxAppends => ENABLED AppendMessages

C14_Witness ==
    /\ Trimmed
    /\ \E j \in DOMAIN jobs : jobs[j].phase = "failed"
    /\ state.status = "success"
    /\ Len(state.messages) <= KEEP_COUNT

\* C15: every record archival wrote to the store carries the id of the
\* session whose window the messages were trimmed from.
C15_TaggedWithSession ==
    \A i \in DOMAIN store : store[i].thread_id = session

\* every pair handed to an archival thread has a record in the store
PairsVisible ==
    \A j \in DOMAIN jobs :
        \A pair \in Range(extract_message_pairs(jobs[j].messages)) :
            \E i \in DOMAIN store : store[i].question = pair.question

\* C16: if the store accepts writes from some point on, every pair dropped
\* from the window by a trim is in the store from some point on.
C16_EventuallyVisible == (<>[]store_up) => <>[]PairsVisible

\* C17: retrieve returns at most limit records, most similar first, all of
\* them points of the store with a score of at least the threshold, and all
\* of the session asked for when a session is given.
C17_RetrieveContract ==
    retrieved.called =>
        LET records == retrieved.records
        IN  /\ Len(records) <= retrieved.limit
            /\ \A i \in DOMAIN records :
                   /\ records[i].score >= ScoreThreshold
                   /\ records[i].score = Similarity(retrieved.query, records[i].question)
                   /\ retrieved.thread_id # NoThread => records[i].thread_id = retrieved.thread_id
                   /\ \E k \in DOMAIN store :
                          store[k] = Record([question |-> records[i].question,
                                             ai_response |-> records[i].ai_response],
                                            records[i].thread_id)
            /\ \A i, j \in DOMAIN records : i < j => records[i].score >= records[j].score

\* a call with a session filter that returned a record, left out a record
\* of the session that is below the threshold, and left out a similar
\* record of another session
C17_Witness ==
    /\ retrieved.called /\ retrieved.thread_id # NoThread
    /\ Len(retrieved.records) >= 1
    /\ \E k \in DOMAIN store :
          /\ store[k].thread_id = retrieved.thread_id
          /\ Similarity(retrieved.query, store[k].question) < ScoreThreshold
    /\ \E k \in DOMAIN store :
          /\ store[k].thread_id # retrieved.thread_id
          /\ Similarity(retrieved.query, store[k].question) >= ScoreThreshold

\* the keys of a result list, in rank order
Keys(results) ==
    LET named == SelectSeq(results, LAMBDA doc : doc.table_name # NoName)
    IN  [i \in DOMAIN named |-> named[i].table_name]

\* 1 / (k + r + 1) for the 0-based rank r of the key in the list, 0 when the
\* key is not in the list, as a multiple of 1 / ScoreDen
Contribution(results, key, k) ==
    IF \E i \in DOMAIN results : results[i].table_name = key
    THEN LET r == (CHOOSE i \in DOMAIN results : results[i].table_name = key) - 1
         IN  ScoreDen \div (k + r + 1)
    ELSE 0

\* C18: the fused score of every returned key is the sum of its
\* contributions from the two lists; a key first in both lists scores
\* 2 / (k + 1); a list without the key contributes nothing.
C18_FusionScore ==
    \A c \in DOMAIN fused :
        \A i \in DOMAIN fused[c].results :
            LET call == fused[c]
                hit == call.results[i]
            IN  /\ hit.rrf_score = Contribution(call.keyword_results, hit.table_name, call.k)
                                   + Contribution(call.semantic_results, hit.table_name, call.k)
                /\ ( /\ call.keyword_results # <<>> /\ call.semantic_results # <<>>
                     /\ call.keyword_results[1].table_name = hit.table_name
                     /\ call.semantic_results[1].table_name = hit.table_name )
                   => hit.rrf_score * (call.k + 1) = 2 * ScoreDen

\* a call that returned a key that is first in both lists and a key that
\* is in the keyword list only
C18_Witness ==
    \E c \in DOMAIN fused :
        LET call == fused[c]
        IN  /\ call.keyword_results # <<>> /\ call.semantic_results # <<>>
            /\ call.keyword_results[1].table_name # NoName
            /\ call.keyword_results[1].table_name = call.semantic_results[1].table_name
            /\ call.results # <<>>
            /\ call.results[1].table_name = call.keyword_results[1].table_name
            /\ \E i \in DOMAIN call.results :
                   /\ Contribution(call.semantic_results, call.results[i].table_name, call.k) = 0
                   /\ call.results[i].rrf_score > 0

\* C19: when one of the two lists is empty, the fused keys are the first
\* top_k keys of the other list, in the order of that list.
C19_FusionDegrades ==
    \A c \in DOMAIN fused :
        LET call == fused[c]
            other == IF call.keyword_results = <<>> THEN call.semantic_results
                     ELSE call.keyword_results
            keys == Keys(other)
        IN  (call.keyword_results = <<>> \/ call.semantic_results = <<>>) =>
                Keys(call.results) =
                    SubSeq(keys, 1, IF call.top_k < Len(keys) THEN call.top_k ELSE Len(keys))

\* the semantic backend failed and the keyword list has more keys than
\* asked for
C19_Witness ==
    \E c \in DOMAIN fused :
        LET call == fused[c]
        IN  /\ call.semantic_results = <<>> /\ qdrant_hits # <<>>
            /\ Len(Keys(call.keyword_results)) > call.top_k
            /\ Len(call.results) = call.top_k /\ call.top_k > 1

C21_RetrievalDegrades ==
    /\ "raised" \notin Completed
    /\ "keyword" \in Completed => keyword_results \in {es_hits, <<>>}
    /\ "semantic" \in Completed => semantic_results \in {qdrant_hits, <<>>}
    /\ \A c \in DOMAIN fused :
          LET call == fused[c]
          IN  /\ call.results = rrf_fusion(call.keyword_results, call.semantic_results,
                                           call.k, call.top_k)
              /\ call.ddl.tables = Keys(call.results)
              /\ call.ddl.found <=>
                     (Keys(call.keyword_results) # <<>> \/ Keys(call.semantic_results) # <<>>)

\* the keyword backend had hits and failed, the semantic one answered, and
\* the schema text lists the tables of the semantic list
C21_Witness ==
    /\ es_hits # <<>> /\ "keyword" \in Completed /\ keyword_results = <<>>
    /\ semantic_results # <<>>
    /\ fused # <<>>
    /\ fused[1].ddl.found
    /\ fused[1].ddl.tables = SubSeq(Keys(semantic_results), 1, Len(fused[1].ddl.tables))

C23_NextTurnStartsAfresh ==
    /\ []( ( /\ pc = "idle" /\ turn >= 1 /\ turn < MaxTurns
             /\ history[turn] \in {"success", "no_result", "error"} )
           => ENABLED SubmitTurn )
    /\ [][ (turn' = turn + 1 /\ turn >= 1) =>
              /\ tasks' = {"intent"}
              /\ state'.status = "running"
              /\ state'.current_step = 0
              /\ state'.retry_count = 0
              /\ state'.messages = state.messages
              /\ state'.question = turn + 1
       ]_vars

\* the second turn starts after a first one that ran two steps and left a
\* pair in the window
C23_Witness ==
    /\ turn = 2 /\ pc = "invoke" /\ tasks = {"intent"} /\ log = <<>>
    /\ history = <<"success">>
    /\ Len(state.messages) = 2
    /\ Len(state.step_results) = 2
    /\ state.status = "running" /\ state.current_step = 0 /\ state.retry_count = 0

\* C24: the error returned to the caller after an execution failure holds
\* at most ErrorChars characters of the text of the backend's error.
C24_ErrorTextIsCut ==
    (pc = "idle" /\ response.error.kind = "execute_failed") =>
        \A i \in DOMAIN response.error.detail : Len(response.error.detail[i]) <= ErrorChars

\* C25: when a step that has successors returns rows, current_step grows by
\* exactly 1, the summary of these rows is the current context and the next
\* step is sent to retrieval; the first generation of that step runs with
\* retry_count 0 whatever the step before it used up.
C25_StepAdvance ==
    /\ [][ StepAdvances =>
              /\ state'.current_step = state.current_step + 1
              /\ state'.current_context =
                     [kind |-> "summary", step |-> state.current_step,
                      rows |-> log'[Len(log')].rows, text |-> ""]
              /\ tasks' = {"rag"}
       ]_vars
    /\ [](FirstGenerationOfLaterStep =>
              /\ state.retry_count = 0
              /\ state.current_context.kind = "summary"
              /\ state.current_context.step = state.current_step - 1)

\* the first step took two retries, the second step is about to be
\* generated for the first time
C25_Witness ==
    /\ FirstGenerationOfLaterStep
    /\ Cardinality(ExecAttempts(0)) = 3
    /\ state.current_step = 1 /\ state.retry_count = 0
    /\ state.current_context.rows > 0

\* C26: every generation for a step after the first, the first one and each
\* regeneration, is given the summary of the result of the step before it;
\* a regeneration is given the error text of the failed attempt as well.
C26_GenerationSeesPreviousResult ==
    \A i \in DOMAIN log :
        /\ LaterGeneration(i) =>
               \E p \in DOMAIN log[i].context :
                   /\ log[i].context[p].kind = "summary"
                   /\ log[i].context[p].step = log[i].step - 1
        /\ Regeneration(i) =>
               \E p \in DOMAIN log[i].context : log[i].context[p].kind = "retry_error"

\* C27: retry_count is always between 0 and max_retries; whenever
\* retrieval, generation or execution is about to run, current_step is an
\* index of a step of the plan, total_steps being the number of its steps.
C27_CountersInRange ==
    /\ 0 <= state.retry_count /\ state.retry_count <= state.max_retries
    /\ StepNodeScheduled =>
          /\ ~state.query_plan.is_none
          /\ state.total_steps = Len(state.query_plan.steps)
          /\ 0 <= state.current_step /\ state.current_step < state.total_steps
    /\ \A i \in DOMAIN log :
          IsCall(log[i]) => (0 <= log[i].step /\ log[i].step < state.total_steps)

\* the last step of a two-step plan is executed with the last retry
C27_Witness ==
    /\ pc = "invoke" /\ tasks = {"execute"}
    /\ state.total_steps = MaxSteps
    /\ state.current_step = state.total_steps - 1
    /\ state.retry_count = state.max_retries

\* C28: the calls of a turn start with the retrieval for step 0; an
\* execution follows a successful generation for the same step; a
\* generation follows the retrieval for its step or, as a retry, a
\* retryable failed execution of its step (no retrieval in between); the
\* retrieval for step i + 1 follows an execution of step i that succeeded
\* with at least one row.
C28_StageOrder ==
    /\ Calls # <<>> => (Calls[1].op = "rag" /\ Calls[1].step = 0)
    /\ \A i \in 2..Len(Calls) :
          LET e == Calls[i]
              p == Calls[i - 1]
          IN  /\ e.op = "exec" => (p.op = "gen" /\ p.ok /\ p.step = e.step)
              /\ e.op = "gen" =>
                     \/ p.op = "rag" /\ p.step = e.step
                     \/ p.op = "exec" /\ p.step = e.step /\ ~p.ok /\ p.retryable
              /\ e.op = "rag" =>
                     (p.op = "exec" /\ p.step + 1 = e.step /\ p.ok /\ p.rows > 0)

\* a turn of two steps whose second step was retried once and then ran
C28_Witness ==
    /\ Len(Calls) = 8
    /\ Calls[4].op = "rag" /\ Calls[4].step = 1
    /\ Calls[6].op = "exec" /\ ~Calls[6].ok
    /\ Calls[7].op = "gen" /\ Calls[7].step = 1
    /\ Calls[8].op = "exec" /\ Calls[8].ok

\* C29: the window changes only in the step of aggregate_node, which adds
\* the question as a Human message and the summary as an Assistant message
\* through the trimming reducer; a finished turn that aggregated has left
\* exactly this pair at the end of the window, and a turn that ended in the
\* error handler has left nothing of its own in the window.
C29_WindowChangesOnlyInAggregate ==
    /\ [][ state'.messages # state.messages =>
              /\ AggregateStep
              /\ state'.messages =
                     add_messages(state.messages,
                                  <<HumanMessage(state.question), AIMessage(state.question)>>)
       ]_vars
    /\ []((TurnDone /\ Aggregated) =>
              /\ MessagesOf(turn) = <<HumanMessage(turn), AIMessage(turn)>>
              /\ SubSeq(state.messages, Len(state.messages) - 1, Len(state.messages))
                     = MessagesOf(turn))
    /\ [](EndedInErrorHandler => (~Aggregated /\ MessagesOf(turn) = <<>>))

\* the second turn stopped at an empty intermediate result and ended in
\* the error handler: the window is the pair of the first turn
C29_Witness ==
    /\ EndedInErrorHandler /\ turn = 2
    /\ history = <<"success", "no_result">>
    /\ state.messages = <<HumanMessage(1), AIMessage(1)>>

\* a window as the turns of a session build it: at most TRIM_THRESHOLD
\* messages, empty or starting with a Human message, Human and Assistant
\* messages in adjacent pairs
IsWindow(w) ==
    /\ Len(w) <= TRIM_THRESHOLD
    /\ Len(w) % 2 = 0
    /\ \A i \in DOMAIN w : w[i].type = IF i % 2 = 1 THEN "human" ELSE "ai"

\* what a turn that aggregates writes: a question and its summary
IsPair(r) == Len(r) = 2 /\ r[1].type = "human" /\ r[2].type = "ai"

\* C30: the window of a session starts empty and every turn that
\* aggregates adds a Human/Assistant pair to it: whenever such a pair is
\* added to a window of at most 20 messages that is empty or starts with a
\* Human message and alternates in pairs, the window after the reducer is
\* of this kind again.
C30_WindowShape ==
    /\ IsWindow(<<>>)
    /\ ( /\ last_append.count > 0
         /\ IsWindow(last_append.left)
         /\ IsPair(last_append.right) )
       => IsWindow(state.messages)

\* a pair was added to a full window: ten messages are left, the first is
\* a question
C30_Witness ==
    /\ last_append.count > 0
    /\ IsWindow(last_append.left) /\ Len(last_append.left) = TRIM_THRESHOLD
    /\ IsPair(last_append.right)
    /\ Len(state.messages) = KEEP_COUNT
    /\ state.messages[1].type = "human"

\* the positions of a slice that hold a Human message directly followed by
\* an Assistant message
PairStarts(messages) ==
    { i \in DOMAIN messages :
        /\ messages[i].type = "human"
        /\ i + 1 \in DOMAIN messages
        /\ messages[i + 1].type = "ai" }

\* C31: the records of an archived slice are, in the order of the slice,
\* one record for each Human message directly followed by an Assistant
\* message, made of these two messages; other messages give no record and
\* no message is in two records.
C31_PairExtraction ==
    \A j \in DOMAIN jobs :
        jobs[j].phase = "done" =>
            LET starts == PairStarts(jobs[j].messages)
            IN  /\ Len(store) = Cardinality(starts)
                /\ \A k \in DOMAIN store :
                       /\ store[k].question \in starts
                       /\ store[k].ai_response = store[k].question + 1
                /\ \A k, l \in DOMAIN store :
                       k < l => store[k].ai_response < store[l].question

\* a slice with an answer at its start, two questions in a row and a
\* question at its end was archived: one record
C31_Witness ==
    /\ jobs[1].phase = "done"
    /\ Len(jobs[1].messages) = 6
    /\ [i \in 1..6 |-> jobs[1].messages[i].type] = <<"ai", "human", "human", "ai", "ai", "human">>
    /\ Len(store) = 1

\* the keys of a call in the order they enter the scores: the keys of the
\* semantic list, then the keys the keyword list alone has
InsertionOrder(call) ==
    LET sem == Keys(call.semantic_results)
    IN  sem \o SelectSeq(Keys(call.keyword_results),
                         LAMBDA key : \A i \in DOMAIN sem : sem[i] # key)

\* the fused score of a key of a call
FusedScore(call, key) ==
    Contribution(call.keyword_results, key, call.k)
    + Contribution(call.semantic_results, key, call.k)

\* key a comes before key b in the fused output of a call
Before(call, a, b) ==
    LET order == InsertionOrder(call)
        pos(key) == CHOOSE i \in DOMAIN order : order[i] = key
    IN  \/ FusedScore(call, a) > FusedScore(call, b)
        \/ (FusedScore(call, a) = FusedScore(call, b) /\ pos(a) < pos(b))

\* C32: the fused output holds min(top_k, number of distinct keys) keys,
\* each once, by non-increasing fused score and among equal scores in the
\* order the keys were inserted (semantic keys before keyword-only keys);
\* every key left out comes after every key returned.
C32_FusedOrder ==
    \A c \in DOMAIN fused :
        LET call == fused[c]
            order == InsertionOrder(call)
            keys == Keys(call.results)
            n == Cardinality(Range(order))
        IN  /\ Len(call.results) = IF call.top_k < n THEN call.top_k ELSE n
            /\ Len(keys) = Len(call.results)
            /\ Range(keys) \subseteq Range(order)
            /\ \A i, j \in DOMAIN keys : i < j => Before(call, keys[i], keys[j])
            /\ \A i \in DOMAIN keys :
                   call.results[i].rrf_score = FusedScore(call, keys[i])
            /\ \A key \in Range(order) \ Range(keys) :
                   \A i \in DOMAIN keys : Before(call, keys[i], key)

\* a keyword-only key and a semantic-only key have the same score: the
\* semantic one is listed first, and a third key is cut off
C32_Witness ==
    \E c \in DOMAIN fused :
        LET call == fused[c]
            keys == Keys(call.results)
        IN  /\ Len(keys) = 2 /\ call.top_k = 2
            /\ Len(InsertionOrder(call)) = 3
            /\ call.results[1].rrf_score = call.results[2].rrf_score
            /\ Contribution(call.keyword_results, keys[1], call.k) = 0
            /\ Contribution(call.semantic_results, keys[2], call.k) = 0

\* C33: the payload of a fused key is the one of the semantic list when the
\* key is in that list, and the one of the keyword list only when the key
\* is in the keyword list alone.
C33_PayloadPrecedence ==
    \A c \in DOMAIN fused :
        LET call == fused[c]
        IN  \A i \in DOMAIN call.results :
                LET key == call.results[i].table_name
                    in_semantic == \E p \in DOMAIN call.semantic_results :
                                      call.semantic_results[p].table_name = key
                IN  call.results[i].source = IF in_semantic THEN "qdrant" ELSE "es"

\* a key of both lists is returned with the semantic payload next to a
\* keyword-only key with the keyword payload
C33_Witness ==
    \E c \in DOMAIN fused :
        LET call == fused[c]
        IN  /\ \E i \in DOMAIN call.results :
                   /\ Contribution(call.keyword_results, call.results[i].table_name, call.k) > 0
                   /\ Contribution(call.semantic_results, call.results[i].table_name, call.k) > 0
                   /\ call.results[i].source = "qdrant"
            /\ \E i \in DOMAIN call.results : call.results[i].source = "es"

\* C34: the two searches of a retrieval are two futures that complete in
\* either order; the fusion is called only when both have completed, on
\* the list of each search (its hits, or nothing when it failed) whatever
\* the order of completion, so the fused result is the same for both orders.
C34_JoinBeforeFusion ==
    /\ Len(searched) <= 2
    /\ \A c \in DOMAIN fused :
          LET call == fused[c]
          IN  /\ call.completed \in {<<"keyword", "semantic">>, <<"semantic", "keyword">>}
              /\ call.keyword_results \in {es_hits, <<>>}
              /\ call.semantic_results \in {qdrant_hits, <<>>}
              /\ call.results = rrf_fusion(call.keyword_results, call.semantic_results,
                                           call.k, call.top_k)
    /\ fused = <<>> =>
          /\ "keyword" \notin Completed => keyword_results = <<>>
          /\ "semantic" \notin Completed => semantic_results = <<>>

\* the semantic search completed before the keyword search, both with
\* hits, and the fusion ran on the two lists
C34_Witness ==
    /\ fused # <<>>
    /\ fused[1].completed = <<"semantic", "keyword">>
    /\ fused[1].keyword_results = es_hits /\ es_hits # <<>>
    /\ fused[1].semantic_results = qdrant_hits /\ qdrant_hits # <<>>
    /\ Len(fused[1].results) > 1

\* plan_validator_node has returned
Validated == pc = "invoke" /\ "plan_validator" \notin tasks

\* the errors of one check in the error of the turn
ErrorsOf(check) == SelectSeq(state.error.detail, LAMBDA e : e.check = check)

\* the step numbers of a plan are 0..n-1 or 1..n
Contiguous(steps) ==
    \/ \A i \in DOMAIN steps : steps[i].step = i - 1
    \/ \A i \in DOMAIN steps : steps[i].step = i

\* the step numbers of the steps of a plan that satisfy test, in plan order
StepsWhere(steps, test(_)) ==
    LET hit == SelectSeq(steps, test)
    IN  [i \in DOMAIN hit |-> hit[i].step]

UnknownBackend(step) == step.database \notin valid_dbs
BadDependsOn(step) == step.depends_on # NoneInt /\ step.depends_on >= step.step

\* the number of violations of a plan: one when its step numbers are not
\* contiguous, one for each unknown backend, one for each bad depends_on
Violations(steps) ==
    (IF Contiguous(steps) THEN 0 ELSE 1)
    + Len(SelectSeq(steps, UnknownBackend))
    + Len(SelectSeq(steps, BadDependsOn))

\* C35: for a plan with several violations the error of the turn holds one
\* entry per violation: one entry when the step numbers are not
\* contiguous, then one entry for each step with an unknown backend, then
\* one entry for each step with a bad depends_on, each naming its step,
\* and the plan goes to the error handler.
C35_ValidatorAccumulates ==
    (Validated /\ Violations(state.query_plan.steps) >= 2) =>
        LET steps == state.query_plan.steps
            errors == state.error.detail
            contiguous == ErrorsOf("contiguous")
            database == ErrorsOf("database")
            depends_on == ErrorsOf("depends_on")
        IN  /\ errors = contiguous \o database \o depends_on
            /\ Len(errors) = Violations(steps)
            /\ Len(contiguous) = IF Contiguous(steps) THEN 0 ELSE 1
            /\ [i \in DOMAIN database |-> database[i].step] = StepsWhere(steps, UnknownBackend)
            /\ [i \in DOMAIN depends_on |-> depends_on[i].step] = StepsWhere(steps, BadDependsOn)
            /\ "error_handler" \in tasks

\* C36: for a plan of any number of steps the validator reports a
\* depends_on error for exactly the steps whose depends_on is not smaller
\* than their own number, and a plan with such a step does not pass.
C36_DependsOnChecked ==
    (Validated /\ state.query_plan.steps # <<>>) =>
        LET steps == state.query_plan.steps
            depends_on == ErrorsOf("depends_on")
        IN  /\ [i \in DOMAIN depends_on |-> depends_on[i].step] = StepsWhere(steps, BadDependsOn)
            /\ (\E i \in DOMAIN steps : BadDependsOn(steps[i])) => "error_handler" \in tasks

\* C37: a plan of one or more steps passes the index check exactly when
\* its step numbers are 0..n-1 or 1..n, and retrieval is scheduled only for
\* a plan with such numbers.
C37_IndexCheck ==
    (Validated /\ state.query_plan.steps # <<>>) =>
        LET steps == state.query_plan.steps
        IN  /\ ErrorsOf("contiguous") = <<>> <=> Contiguous(steps)
            /\ "rag" \in tasks => Contiguous(steps)

\* C38: the text format_context returns for a result set of many equal rows
\* (more rows than the row limit, 1000 for one) has an estimated token
\* count, its length divided by 4, of at most max_tokens.
C38_CompressionBounded ==
    (compressed.called /\ compressed.total > DefaultMaxRows)
        => compressed.chars \div 4 <= DefaultMaxTokens

====
